---- MODULE Spec2Model ----
(***************************************************************************)
(* A model of solana-pubkey-compare.                                       *)
(*                                                                         *)
(*   build.rs    the build script: reads TARGET and compiles and links the *)
(*               assembly module for a recognized target                   *)
(*   src/lib.rs  fast_eq: the dispatch function, whose body is one of two  *)
(*               cfg branches: the call of the foreign routine, or the     *)
(*               type's own equality                                       *)
(*                                                                         *)
(* The foreign routine __solana_pubkey_compare__fast_eq is assembly        *)
(* (assert_pubkey_eq.s, named by build.rs:9) that the source tree does not *)
(* hold; it is modelled from its specification (spec.md 4.2).              *)
(*                                                                         *)
(* Two specifications: SpecBuild (a build: the build script, then the      *)
(* crate's compilation under cfg) and Spec (calls of fast_eq in a built    *)
(* artifact).                                                              *)
(***************************************************************************)
EXTENDS Integers, Sequences, FiniteSets

VARIABLES
    env,        \* the build's environment: [set, val] of TARGET, and target_os
    buildPc,    \* "start" | "done" | "failed" | "compiled"
    ccOk,       \* whether the toolchain could assemble the source (an input)
    ccInvoked,  \* cc::Build::compile was called
    linked,     \* the static module (and the routine's symbol) is linked
    rerun,      \* cargo:rerun-if-changed was printed
    path,       \* the cfg branch compiled into fast_eq: "none" before
    pc,         \* a call's position: "idle" | "ready" | "routine" | "done"
    mem,        \* memory: address -> byte, defined on the allocated addresses
    args,       \* the call's operands: [ty, lhs, rhs] (type, two references)
    lhsPtr,     \* the routine's first argument
    rhsPtr,     \* the routine's second argument
    idx,        \* the routine's next word
    loaded,     \* the words the routine has loaded
    ncmp,       \* the word comparisons the routine has made
    outcome,    \* "none" | "returned" | "fault"
    result      \* the returned boolean (when outcome = "returned")

buildVars == <<env, buildPc, ccOk, ccInvoked, linked, rerun, path>>
callVars == <<pc, mem, args, lhsPtr, rhsPtr, idx, loaded, ncmp, outcome, result>>
vars == <<env, buildPc, ccOk, ccInvoked, linked, rerun, path,
          pc, mem, args, lhsPtr, rhsPtr, idx, loaded, ncmp, outcome, result>>

(***************************************************************************)
(* Program constants and the bounds of the model.                          *)
(***************************************************************************)
\* a key is 32 bytes
KeyBytes == 32
\* the routine's pointers are *const u64: a word is 8 bytes
WordBytes == 8
\* four 64-bit loads
NumWords == 4
\* the longest generated target name
MaxTargetLen == 4
\* the most byte positions at which the right operand is made to differ
MaxDiff == 1

(***************************************************************************)
(* build.rs                                                                *)
(***************************************************************************)
\* Strings are sequences of characters, so that `contains` is computed.
Sbf == <<"s","b","f">>
Solana == <<"s","o","l","a","n","a">>

\* hay[i .. i+Len(needle)-1] = needle, compared character by character
RECURSIVE MatchAt(_, _, _, _)
MatchAt(hay, needle, i, k) ==
    IF k > Len(needle) THEN TRUE
    ELSE IF i + k - 1 > Len(hay) THEN FALSE
    ELSE IF hay[i + k - 1] # needle[k] THEN FALSE
    ELSE MatchAt(hay, needle, i, k + 1)

RECURSIVE ContainsFrom(_, _, _)
ContainsFrom(hay, needle, i) ==
    IF i + Len(needle) - 1 > Len(hay) THEN FALSE
    ELSE IF MatchAt(hay, needle, i, 1) THEN TRUE
    ELSE ContainsFrom(hay, needle, i + 1)

\* str::contains(&str)
Contains(hay, needle) == ContainsFrom(hay, needle, 1)

\* env::var("TARGET").unwrap_or_default(): the empty string when unset
UnwrapOrDefault(e) == IF e.set THEN e.val ELSE <<>>

RecognizedOnlySbf(target) == Contains(target, Sbf)

\* target.contains("sbf") || target.contains("solana")
Recognized(target) == Contains(target, Sbf) \/ Contains(target, Solana)

BuildMainSwallow(e, ok) ==
    LET target == UnwrapOrDefault(e) IN
    [status |-> "done", invoked |-> Recognized(target),
     linked |-> Recognized(target) /\ ok, rerun |-> TRUE]

\* main: what the build script has done when it ends. `ok` is whether the
\* toolchain assembles the source; cc::Build::compile panics when it cannot,
\* and the panic ends the script before its println!.
BuildMain(e, ok) ==
    LET target == UnwrapOrDefault(e) IN
    IF Recognized(target)
    THEN IF ok
         THEN [status |-> "done", invoked |-> TRUE, linked |-> TRUE, rerun |-> TRUE]
         ELSE [status |-> "failed", invoked |-> TRUE, linked |-> FALSE, rerun |-> FALSE]
    ELSE [status |-> "done", invoked |-> FALSE, linked |-> FALSE, rerun |-> TRUE]

\* #[cfg(target_os = "solana")] / #[cfg(not(target_os = "solana"))]
CfgPath(os) == IF os = "solana" THEN "optimized" ELSE "fallback"

(***************************************************************************)
(* The builds: a target name and the target_os its target specification    *)
(* sets. Named targets carry the os of their specification; a generated    *)
(* name stands for a custom target specification, whose os is its author's *)
(* choice.                                                                 *)
(***************************************************************************)
NamedTargets ==
    { [name |-> <<"s","b","f","-","s","o","l","a","n","a","-","s","o","l","a","n","a">>,
       os |-> "solana"],
      [name |-> <<"s","b","p","f","-","s","o","l","a","n","a","-","s","o","l","a","n","a">>,
       os |-> "solana"],
      [name |-> <<"b","p","f","e","l","-","u","n","k","n","o","w","n","-","u","n","k","n","o","w","n">>,
       os |-> "solana"],
      [name |-> <<"b","p","f","e","l","-","u","n","k","n","o","w","n","-","n","o","n","e">>,
       os |-> "none"],
      [name |-> <<"x","8","6","_","6","4","-","u","n","k","n","o","w","n","-","l","i","n","u","x","-","g","n","u">>,
       os |-> "linux"],
      [name |-> <<"a","a","r","c","h","6","4","-","a","p","p","l","e","-","d","a","r","w","i","n">>,
       os |-> "macos"] }

\* names that come close to a recognized one
NearMisses ==
    { [name |-> <<"s","o","l","a","n">>, os |-> "none"],
      [name |-> <<"s","o","l","-","a","n","a">>, os |-> "none"],
      [name |-> <<"S","B","F","-","S","O","L","A","N","A">>, os |-> "none"] }

TargetChars == {"s", "b", "f"}

RECURSIVE NamesUpTo(_)
NamesUpTo(n) ==
    IF n = 0 THEN {<<>>}
    ELSE LET shorter == NamesUpTo(n - 1) IN
         shorter \cup {Append(s, c) : s \in shorter, c \in TargetChars}

BuildEnvs ==
    { [set |-> TRUE, val |-> t.name, os |-> t.os] : t \in NamedTargets \cup NearMisses }
    \cup { [set |-> TRUE, val |-> s, os |-> o] :
             s \in NamesUpTo(MaxTargetLen), o \in {"solana", "none"} }
    \cup { [set |-> FALSE, val |-> <<>>, os |-> o] : o \in {"solana", "linux"} }

(***************************************************************************)
(* Memory and the operand types of a call.                                 *)
(*                                                                         *)
(* Memory maps the allocated addresses to bytes; an address outside its    *)
(* domain belongs to no object. A type T: AsRef<[u8]> + PartialEq is       *)
(* either an array [u8; n] (Pubkey is a transparent wrapper of [u8; 32]),  *)
(* whose value is its bytes, or a Vec<u8> of n bytes, whose value is three *)
(* words (pointer, capacity, length) and whose bytes are on the heap. Vec  *)
(* is repr(Rust): the order of its three words is the compiler's choice,   *)
(* so a Vec type carries its order, and every order is among the types.    *)
(***************************************************************************)
EmptyMem == [a \in {} |-> 0]
\* the word (0, 1 or 2) of a Vec value that holds each field
VecOrders ==
    { o \in [ptr : 0..2, cap : 0..2, len : 0..2] :
        o.ptr # o.cap /\ o.ptr # o.len /\ o.cap # o.len }
NoOrder == [ptr |-> 0, cap |-> 0, len |-> 0]
NoType == [kind |-> "none", n |-> 0, order |-> NoOrder]
NoArgs == [ty |-> NoType, lhs |-> 0, rhs |-> 0]

Types ==
    { [kind |-> "array", n |-> KeyBytes, order |-> NoOrder],
      [kind |-> "array", n |-> KeyBytes \div 2, order |-> NoOrder] }
    \cup { [kind |-> "vec", n |-> KeyBytes, order |-> o] : o \in VecOrders }

\* where the caller's objects are: the two operands, and the Vecs' buffers
Layout == [lhs |-> 8, rhs |-> 56, lhsHeap |-> 104, rhsHeap |-> 160]
\* an operand's distance from an 8-byte boundary
Offsets == {0, 1}
\* a Vec's capacity beyond its length: none, or two words (with_capacity)
Spares == {0, 2 * WordBytes}
\* align_of::<T>(): 1 for an array of u8, a word for a Vec
AlignOf(ty) == IF ty.kind = "array" THEN 1 ELSE WordBytes

\* a usize in memory, little-endian (the model's addresses and lengths are
\* below 65536)
Le(n) == <<n % 256, (n \div 256) % 256, 0, 0, 0, 0, 0, 0>>
LeDecode(m, p) == m[p] + 256 * m[p + 1]

Region(base, bytes) == [a \in base..(base + Len(bytes) - 1) |-> bytes[a - base + 1]]
Merge(f, g) == [a \in (DOMAIN f) \cup (DOMAIN g) |-> IF a \in DOMAIN f THEN f[a] ELSE g[a]]

\* size_of::<T>()
SizeOf(ty) == IF ty.kind = "array" THEN ty.n ELSE 3 * WordBytes

\* the three words of a Vec value, in its type's order
VecHeader(ty, heap, cap, len) ==
    LET word(w) == IF w = ty.order.ptr THEN Le(heap)
                   ELSE IF w = ty.order.cap THEN Le(cap)
                   ELSE Le(len)
    IN word(0) \o word(1) \o word(2)

\* the memory of one value of type ty at addr holding `bytes`: an array is
\* its bytes; a Vec is its three words, and a buffer of `cap` bytes at heap
\* whose first Len(bytes) hold the bytes (the spare ones are never read and
\* stand as 0)
Place(ty, addr, heap, bytes, cap) ==
    IF ty.kind = "array" THEN Region(addr, bytes)
    ELSE Merge(Region(addr, VecHeader(ty, heap, cap, Len(bytes))),
               Region(heap, bytes \o [i \in 1..(cap - Len(bytes)) |-> 0]))

\* <T as AsRef<[u8]>>::as_ref(p).as_ptr() and .len()
AsRefPtr(m, ty, p) ==
    IF ty.kind = "array" THEN p ELSE LeDecode(m, p + ty.order.ptr * WordBytes)
AsRefLen(m, ty, p) ==
    IF ty.kind = "array" THEN ty.n ELSE LeDecode(m, p + ty.order.len * WordBytes)
ViewBytes(m, ty, p) ==
    [i \in 1..AsRefLen(m, ty, p) |-> m[AsRefPtr(m, ty, p) + i - 1]]

\* <T as PartialEq>::eq: arrays and Vecs compare as slices
PartialEq(m, ty, l, r) == ViewBytes(m, ty, l) = ViewBytes(m, ty, r)

(***************************************************************************)
(* The operands a caller constructs: a key, and a second key that differs  *)
(* from it at up to MaxDiff byte positions, in every byte, or in its last  *)
(* word.                                                                   *)
(***************************************************************************)
RECURSIVE DiffSets(_, _)
DiffSets(n, k) ==
    IF k = 0 THEN {{}}
    ELSE LET fewer == DiffSets(n, k - 1) IN
         fewer \cup {d \cup {i} : d \in fewer, i \in 0..(n - 1)}

BaseKeys(n) == { [i \in 1..n |-> 1], [i \in 1..n |-> 0] }

Variants(a) ==
    LET n == Len(a) IN
    { [i \in 1..n |-> IF (i - 1) \in d THEN a[i] + 1 ELSE a[i]] : d \in DiffSets(n, MaxDiff) }
    \cup { [i \in 1..n |-> a[i] + 1] }
    \cup { [i \in 1..n |-> IF i > n - WordBytes THEN 9 ELSE a[i]] }

(***************************************************************************)
(* src/lib.rs: fast_eq                                                     *)
(***************************************************************************)
\* lhs as *const _ as *const u64: the reference's own address
CastPtr(ref) == ref

FastEqAsserts(p, m, ty, l, r) ==
    IF p = "optimized"
    THEN [call |-> TRUE, lhs_ptr |-> CastPtr(l), rhs_ptr |-> CastPtr(r),
          ret |-> FALSE, panic |-> FALSE, mem |-> m]
    ELSE [call |-> FALSE, lhs_ptr |-> 0, rhs_ptr |-> 0,
          ret |-> TRUE, panic |-> ~PartialEq(m, ty, l, r), mem |-> m]

FastEqFirstWords(p, m, ty, l, r) ==
    IF p = "optimized"
    THEN [call |-> TRUE, lhs_ptr |-> CastPtr(l), rhs_ptr |-> CastPtr(r),
          ret |-> FALSE, panic |-> FALSE, mem |-> m]
    ELSE [call |-> FALSE, lhs_ptr |-> 0, rhs_ptr |-> 0,
          ret |-> \A i \in 0..(SizeOf(ty) - WordBytes - 1) : m[l + i] = m[r + i],
          panic |-> FALSE, mem |-> m]

FastEqWrites(p, m, ty, l, r) ==
    IF p = "optimized"
    THEN [call |-> TRUE, lhs_ptr |-> CastPtr(l), rhs_ptr |-> CastPtr(r),
          ret |-> FALSE, panic |-> FALSE, mem |-> m]
    ELSE [call |-> FALSE, lhs_ptr |-> 0, rhs_ptr |-> 0,
          ret |-> PartialEq(m, ty, l, r), panic |-> FALSE,
          mem |-> [m EXCEPT ![l] = m[r]]]

\* fast_eq's body under the cfg branch p: either the call of the foreign
\* routine with the two cast references (its result is the function's), or
\* lhs == rhs. Neither branch writes memory or can panic.
FastEq(p, m, ty, l, r) ==
    IF p = "optimized"
    THEN [call |-> TRUE, lhs_ptr |-> CastPtr(l), rhs_ptr |-> CastPtr(r),
          ret |-> FALSE, panic |-> FALSE, mem |-> m]
    ELSE [call |-> FALSE, lhs_ptr |-> 0, rhs_ptr |-> 0,
          ret |-> PartialEq(m, ty, l, r), panic |-> FALSE, mem |-> m]

(***************************************************************************)
(* The foreign routine __solana_pubkey_compare__fast_eq.                   *)
(***************************************************************************)
WordAddrs(p, i) == (p + WordBytes * i)..(p + WordBytes * i + WordBytes - 1)
Readable(m, p, i) == WordAddrs(p, i) \subseteq DOMAIN m
\* a 64-bit load: the word's eight bytes (equal words are equal byte for byte)
LoadWord(m, p, i) == [k \in 1..WordBytes |-> m[p + WordBytes * i + k - 1]]

\* what comparing word i can come to. A load outside every object is
\* undefined: the access may fault, or read whatever is there.
WordOutcomes(m, lp, rp, i) ==
    IF Readable(m, lp, i) /\ Readable(m, rp, i)
    THEN {IF LoadWord(m, lp, i) = LoadWord(m, rp, i) THEN "match" ELSE "mismatch"}
    ELSE IF lp = rp THEN {"fault", "match"}
    ELSE {"fault", "match", "mismatch"}

RoutineNextLastWins(i, c) ==
    IF i + 1 = NumWords
    THEN [done |-> TRUE, ret |-> (c = "match")]
    ELSE [done |-> FALSE, ret |-> FALSE]

\* after comparing word i: leave with not-equal at a mismatch, with equal
\* after the last word, and go on to the next word otherwise
RoutineNext(i, c) ==
    IF c = "mismatch" THEN [done |-> TRUE, ret |-> FALSE]
    ELSE IF i + 1 = NumWords THEN [done |-> TRUE, ret |-> TRUE]
    ELSE [done |-> FALSE, ret |-> FALSE]

IdleCall ==
    /\ pc = "idle"
    /\ mem = EmptyMem
    /\ args = NoArgs
    /\ lhsPtr = 0
    /\ rhsPtr = 0
    /\ idx = 0
    /\ loaded = {}
    /\ ncmp = 0
    /\ outcome = "none"
    /\ result = FALSE

(***************************************************************************)
(* SpecBuild: one build.                                                   *)
(***************************************************************************)
InitBuild ==
    /\ env \in BuildEnvs
    /\ ccOk \in BOOLEAN
    /\ buildPc = "start"
    /\ ccInvoked = FALSE
    /\ linked = FALSE
    /\ rerun = FALSE
    /\ path = "none"
    /\ IdleCall

\* cargo runs the build script
BuildScript ==
    /\ buildPc = "start"
    /\ LET r == BuildMain(env, ccOk) IN
        /\ buildPc' = r.status
        /\ ccInvoked' = r.invoked
        /\ linked' = r.linked
        /\ rerun' = r.rerun
    /\ UNCHANGED <<env, ccOk, path>>
    /\ UNCHANGED callVars

\* after a build script that succeeded, rustc compiles the crate: fast_eq's
\* body is the branch its cfg selects
CrateCompile ==
    /\ buildPc = "done"
    /\ buildPc' = "compiled"
    /\ path' = CfgPath(env.os)
    /\ UNCHANGED <<env, ccOk, ccInvoked, linked, rerun>>
    /\ UNCHANGED callVars

NextBuild == BuildScript \/ CrateCompile

SpecBuild == InitBuild /\ [][NextBuild]_vars

(***************************************************************************)
(* Spec: calls of fast_eq in a built artifact.                             *)
(***************************************************************************)
\* the artifacts that run: the on-chain and the Linux builds of the named
\* targets that succeed and link (an optimized path needs the routine's
\* symbol)
RunEnvs ==
    { e \in BuildEnvs :
        /\ e.val \in {t.name : t \in NamedTargets}
        /\ e.os \in {"solana", "linux"}
        /\ BuildMain(e, TRUE).status = "done"
        /\ CfgPath(e.os) = "optimized" => BuildMain(e, TRUE).linked }

Init ==
    /\ env \in RunEnvs
    /\ ccOk = TRUE
    /\ buildPc = "compiled"
    /\ ccInvoked = BuildMain(env, TRUE).invoked
    /\ linked = BuildMain(env, TRUE).linked
    /\ rerun = BuildMain(env, TRUE).rerun
    /\ path = CfgPath(env.os)
    /\ IdleCall

\* the caller constructs two operands of one type, or one and passes it
\* twice; a left Vec may have spare capacity, a right one is built exactly
Prepare ==
    /\ pc = "idle"
    /\ \E ty \in Types, lo \in Offsets, ro \in Offsets, alias \in BOOLEAN :
       \E a \in BaseKeys(ty.n), ls \in Spares :
       \E b \in (IF alias THEN {a} ELSE Variants(a)) :
         LET l == Layout.lhs + lo
             r == IF alias THEN l ELSE Layout.rhs + ro
         IN /\ lo % AlignOf(ty) = 0
            /\ ro % AlignOf(ty) = 0
            /\ (alias => ro = lo)
            /\ (ty.kind = "array" => ls = 0)
            /\ mem' = IF alias THEN Place(ty, l, Layout.lhsHeap, a, Len(a) + ls)
                       ELSE Merge(Place(ty, l, Layout.lhsHeap, a, Len(a) + ls),
                                  Place(ty, r, Layout.rhsHeap, b, Len(b)))
            /\ args' = [ty |-> ty, lhs |-> l, rhs |-> r]
    /\ pc' = "ready"
    /\ UNCHANGED <<lhsPtr, rhsPtr, idx, loaded, ncmp, outcome, result>>
    /\ UNCHANGED buildVars

\* fast_eq(&lhs, &rhs), up to its return or its call of the foreign routine
FastEqCall ==
    /\ pc = "ready"
    /\ LET d == FastEq(path, mem, args.ty, args.lhs, args.rhs) IN
        /\ mem' = d.mem
        /\ lhsPtr' = d.lhs_ptr
        /\ rhsPtr' = d.rhs_ptr
        /\ pc' = IF d.call THEN "routine" ELSE "done"
        /\ outcome' = IF d.call THEN "none" ELSE IF d.panic THEN "fault" ELSE "returned"
        /\ result' = d.ret
    /\ UNCHANGED <<args, idx, loaded, ncmp>>
    /\ UNCHANGED buildVars

\* the foreign routine loads and compares its next pair of words
RoutineStep ==
    /\ pc = "routine"
    /\ idx < NumWords
    /\ \E c \in WordOutcomes(mem, lhsPtr, rhsPtr, idx) :
         /\ loaded' = loaded \cup {idx}
         /\ ncmp' = ncmp + 1
         /\ idx' = idx + 1
         /\ IF c = "fault"
            THEN pc' = "done" /\ outcome' = "fault" /\ result' = FALSE
            ELSE LET n == RoutineNext(idx, c) IN
                 /\ pc' = IF n.done THEN "done" ELSE "routine"
                 /\ outcome' = IF n.done THEN "returned" ELSE "none"
                 /\ result' = n.ret
    /\ UNCHANGED <<mem, args, lhsPtr, rhsPtr>>
    /\ UNCHANGED buildVars

\* the call is over; the caller drops its operands
Return ==
    /\ pc = "done"
    /\ pc' = "idle"
    /\ mem' = EmptyMem
    /\ args' = NoArgs
    /\ lhsPtr' = 0
    /\ rhsPtr' = 0
    /\ idx' = 0
    /\ loaded' = {}
    /\ ncmp' = 0
    /\ outcome' = "none"
    /\ result' = FALSE
    /\ UNCHANGED buildVars

Next == Prepare \/ FastEqCall \/ RoutineStep \/ Return

Spec == Init /\ [][Next]_vars

(***************************************************************************)
(* The properties.                                                         *)
(***************************************************************************)
\* the operands are keys: values that are their 32 bytes
KeyOperands == args.ty.kind = "array" /\ args.ty.n = KeyBytes
\* both operands' byte views are 32 bytes long
Views32 ==
    /\ args.ty # NoType
    /\ AsRefLen(mem, args.ty, args.lhs) = KeyBytes
    /\ AsRefLen(mem, args.ty, args.rhs) = KeyBytes
\* the two keys agree at every byte position
BytesMatch == \A i \in 0..(KeyBytes - 1) : mem[args.lhs + i] = mem[args.rhs + i]
\* the pair of words i of the routine's two regions differs in some byte
WordDiffers(i) ==
    \E k \in 0..(WordBytes - 1) :
        mem[lhsPtr + WordBytes * i + k] # mem[rhsPtr + WordBytes * i + k]
\* both of the routine's pointers are valid for a 32-byte read
Valid32 ==
    \A k \in 0..(NumWords * WordBytes - 1) :
        (lhsPtr + k) \in DOMAIN mem /\ (rhsPtr + k) \in DOMAIN mem
\* the TARGET the build script sees, and whether a name occurs in it
TargetSeen == IF env.set THEN env.val ELSE <<>>
Occurs(n) ==
    \E i \in 1..(Len(TargetSeen) + 1) :
        /\ i + Len(n) - 1 <= Len(TargetSeen)
        /\ \A k \in 1..Len(n) : TargetSeen[i + k - 1] = n[k]
RecognizedTarget == Occurs(Sbf) \/ Occurs(Solana)

\* C1 (as claimed): for operands whose byte views are 32 bytes each, a call
\* on the optimized path returns what the fallback path (the type's own
\* equality) returns for the same operands.
C1_PathsAgree ==
    (pc = "done" /\ path = "optimized" /\ Views32)
        => (outcome = "returned" /\ result = PartialEq(mem, args.ty, args.lhs, args.rhs))

\* C2: on either path, a call on two 32-byte keys returns true exactly when
\* all 32 bytes match, whichever positions differ and whether the second key
\* is the first or a copy of it.
C2_TrueIffAllBytesMatch ==
    (pc = "done" /\ KeyOperands) => (outcome = "returned" /\ (result <=> BytesMatch))

C2_Witness ==
    /\ pc = "done" /\ KeyOperands /\ path = "optimized"
    /\ args.lhs # args.rhs /\ BytesMatch /\ result

\* C3: a call on two 32-byte keys never ends in an error; the routine is
\* never left without a next word to compare, and makes at most four word
\* comparisons before the call returns a boolean.
C3_TotalAndBounded ==
    KeyOperands =>
        /\ ncmp <= NumWords
        /\ pc = "routine" => (idx < NumWords /\ ncmp = idx /\ outcome = "none")
        /\ pc = "done" => (outcome = "returned" /\ result \in BOOLEAN)

C3_Witness ==
    /\ pc = "done" /\ KeyOperands /\ path = "optimized"
    /\ ncmp = NumWords /\ outcome = "returned" /\ result

\* C4: from the call of fast_eq to its return, no step changes memory (the
\* operands' bytes included), the operands or the build's state: a call
\* leaves nothing behind but its result.
C4_NoEffect ==
    [][(pc \in {"ready", "routine"})
       => (mem' = mem /\ args' = args /\ buildVars' = buildVars)]_vars

C4_Witness ==
    /\ pc = "done" /\ KeyOperands /\ path = "fallback"
    /\ outcome = "returned" /\ ~result /\ mem[args.lhs] # mem[args.rhs]

\* C5: the build script invokes the compiler exactly when "sbf" or "solana"
\* occurs in TARGET (an unset TARGET is the empty name), and when it ends
\* successfully the module is linked exactly for those targets.
C5_CompilesIffRecognized ==
    buildPc # "start" =>
        /\ ccInvoked <=> RecognizedTarget
        /\ linked => RecognizedTarget
        /\ buildPc \in {"done", "compiled"} => (linked <=> RecognizedTarget)

C5_Witness ==
    /\ buildPc = "done" /\ linked /\ ccInvoked
    /\ Occurs(Solana) /\ ~Occurs(Sbf)

\* C6: when the target is recognized and the assembly does not compile, the
\* build script fails: the build never goes on to compile the crate, and
\* nothing is linked.
C6_CompileFailureIsFatal ==
    (buildPc # "start" /\ RecognizedTarget /\ ~ccOk)
        => (buildPc = "failed" /\ ~linked /\ path = "none")

C6_Witness == buildPc = "failed" /\ ccInvoked /\ ~ccOk /\ Occurs(Sbf)

\* C7: on two readable 32-byte regions the routine loads the word pairs in
\* address order, goes on only while every pair loaded so far matched,
\* reports not-equal at the first pair that differs without loading a later
\* one, and reports equal only after all four pairs matched.
C7_FirstMismatchStops ==
    (path = "optimized" /\ pc \in {"routine", "done"} /\ Valid32) =>
        /\ loaded = 0..(ncmp - 1)
        /\ pc = "routine" => (idx = ncmp /\ \A j \in loaded : ~WordDiffers(j))
        /\ pc = "done" =>
            /\ outcome = "returned"
            /\ \A j \in 0..(ncmp - 2) : ~WordDiffers(j)
            /\ IF result THEN ncmp = NumWords /\ ~WordDiffers(NumWords - 1)
               ELSE WordDiffers(ncmp - 1)

C7_Witness ==
    /\ path = "optimized" /\ pc = "done" /\ Valid32
    /\ ~result /\ ncmp = NumWords /\ WordDiffers(NumWords - 1)

\* C8 (as claimed): on the optimized path each pointer handed to the routine
\* is the address of the first byte of that operand's byte view, for every
\* operand type.
C8_PointersAreByteViews ==
    (path = "optimized" /\ pc \in {"routine", "done"}) =>
        /\ lhsPtr = AsRefPtr(mem, args.ty, args.lhs)
        /\ rhsPtr = AsRefPtr(mem, args.ty, args.rhs)

\* C9 (as claimed): whenever the routine runs, both of its pointers are
\* valid for a 32-byte read and aligned to 8 bytes.
C9_RoutinePreconditionHolds ==
    pc = "routine" =>
        /\ Valid32
        /\ lhsPtr % WordBytes = 0
        /\ rhsPtr % WordBytes = 0

\* C10 (as claimed): a built crate has exactly one of the two paths, and
\* has the optimized one only if the build script linked the routine.
C10_OptimizedOnlyIfLinked ==
    buildPc = "compiled" =>
        /\ path \in {"optimized", "fallback"}
        /\ path = "optimized" => linked

====
